---- MODULE Spec2Model ----
(***************************************************************************)
(* A model of pyrdc: the key builder (utils.to_key), the memoized call     *)
(* cache (decorators.memoized), the Singleton registry and the two Borg    *)
(* registries (pyrdc/patterns.py and the argument-keyed patterns.py).      *)
(*                                                                         *)
(* Python values are tagged pairs <<tag, payload>>; the payload is a       *)
(* sequence of one-character strings, so every value has the same shape.   *)
(* Python strings (keys, reprs) are sequences of one-character strings.    *)
(***************************************************************************)
EXTENDS Integers, Sequences, FiniteSets, TLC

VARIABLES
    cache,      \* memoized.cache: key -> stored result
    memoInv,    \* history: key -> number of invocations of the wrapped callable
    memoDone,   \* history: key -> number of invocations that returned normally
    memoLast,   \* history: what the last memoized call did
    memoCalls,  \* history: number of memoized calls made so far
    memoStored, \* history: key -> the call whose result the cache stored
    memoStack,  \* the calls of the wrapper whose callable is still computing
    fRes,       \* history: arguments -> what the callable did when invoked on them
    instances,  \* Singleton.__instances: key -> instance (its index in objects)
    objects,    \* the instances constructed: what each constructor call applied
    ctorInv,    \* history: key -> number of constructor invocations
    ctorDone,   \* history: key -> number of constructor invocations that returned
    sLast,      \* history: what the last Singleton request did
    sCalls,     \* history: number of Singleton requests made so far
    shared,     \* Borg.__shared: key -> attribute store (its index in stores)
    stores,     \* the attribute stores (dict objects): attribute -> value
    binst,      \* the Borg instances constructed: type, call, key, __dict__
    decorated,  \* the types that carry the __decorated marker
    wrapped,    \* type -> how many times its __init__ has been wrapped
    props,      \* type -> slot -> the attribute its accessor pair reads and writes
    bInit,      \* history: key -> number of runs of the type's initializer
    bCons,      \* history: key -> number of constructions
    lastWritten, \* history: <<key, attribute>> -> the value written last
    bLast,      \* history: what the last Borg operation did
    bWrites,    \* history: number of attribute writes made from outside
    wLast,      \* history: what the last guarded call did
    wCalls,     \* history: number of guarded calls made so far
    wFuncInv,   \* history: number of invocations of the guarded callable
    wHandlerInv, \* history: number of invocations of the handler
    kIn,        \* the two calls whose keys are built: name, args, kwargs
    kOut,       \* the key built for each of them, or what to_key raised
    lIn,        \* the argument of a call of unique_list or merged_list
    lOut        \* what that call returned or raised

memoVars == <<cache, memoInv, memoDone, memoLast, memoCalls, memoStored,
              memoStack, fRes>>
singletonVars == <<instances, objects, ctorInv, ctorDone, sLast, sCalls>>
borgVars == <<shared, stores, binst, decorated, wrapped, props, bInit, bCons,
              lastWritten, bLast, bWrites>>
wrapVars == <<wLast, wCalls, wFuncInv, wHandlerInv>>
keyVars == <<kIn, kOut>>
listVars == <<lIn, lOut>>

vars == <<cache, memoInv, memoDone, memoLast, memoCalls, memoStored,
          memoStack, fRes,
          instances, objects, ctorInv, ctorDone, sLast, sCalls,
          shared, stores, binst, decorated, wrapped, props, bInit, bCons,
          lastWritten, bLast, bWrites,
          wLast, wCalls, wFuncInv, wHandlerInv, kIn, kOut, lIn, lOut>>

----------------------------------------------------------------------------
(* Bounds *)

\* the number of calls made to one memoized callable
MaxCalls == 3

\* the number of requests made to the Singleton registry
MaxRequests == 3

\* the number of constructions of Borg types
MaxObjects == 3

\* the number of attribute writes made to Borg instances from outside
MaxWrites == 2

\* the number of guarded calls made through the exception wrapper
MaxGuarded == 2

\* the depth to which calls of a memoized callable nest
MaxDepth == 2

\* the length of the sequences given to unique_list and merged_list
MaxLen == 3

----------------------------------------------------------------------------
(* Python values *)

PyInt(d) == <<"int", <<d>>>>
PyFloat(d) == <<"float", <<d>>>>
PyStr(c) == <<"str", <<c>>>>
PyList(ds) == <<"list", ds>>
\* a dict whose keys are the one-character strings ks, in the order the dict
\* iterates them, each mapped to 0
PyDict(ks) == <<"dict", ks>>

Tag(v) == v[1]
Payload(v) == v[2]

\* hash(v): a list or a dict is unhashable (TypeError), everything else hashes
Hashable(v) == Tag(v) \notin {"list", "dict"}

\* v == w: an int and a float of one value are equal, dicts are equal when
\* they hold the same items in whatever order
PyEq(v, w) ==
    IF Tag(v) \in {"int", "float"} /\ Tag(w) \in {"int", "float"}
    THEN Payload(v) = Payload(w)
    ELSE IF Tag(v) = "dict" /\ Tag(w) = "dict"
    THEN {Payload(v)[i] : i \in 1..Len(Payload(v))}
            = {Payload(w)[i] : i \in 1..Len(Payload(w))}
    ELSE v = w

\* the separator ", " of a repr
Comma == <<",", " ">>

RECURSIVE JoinComma(_)
JoinComma(ss) ==
    IF Len(ss) = 0 THEN <<>>
    ELSE IF Len(ss) = 1 THEN ss[1]
    ELSE ss[1] \o Comma \o JoinComma(Tail(ss))

\* repr(v) of an argument value
Repr(v) ==
    CASE Tag(v) = "int" -> Payload(v)
      [] Tag(v) = "float" -> Payload(v) \o <<".", "0">>
      [] Tag(v) = "str" -> <<"'">> \o Payload(v) \o <<"'">>
      [] Tag(v) = "list" ->
            <<"[">> \o JoinComma([i \in 1..Len(Payload(v)) |-> <<Payload(v)[i]>>])
                    \o <<"]">>
      [] Tag(v) = "dict" ->
            <<"{">> \o JoinComma([i \in 1..Len(Payload(v)) |->
                                    <<"'", Payload(v)[i], "'", ":", " ", "0">>])
                    \o <<"}">>

\* repr(args) of the positional tuple: "()", "(a,)", "(a, b)"
ReprTuple(args) ==
    <<"(">> \o JoinComma([i \in 1..Len(args) |-> Repr(args[i])])
            \o (IF Len(args) = 1 THEN <<",">> ELSE <<>>) \o <<")">>

\* the keyword names a call may use, in the order of Python's string comparison
KwNames == <<"name", "x", "y">>

Rank(n) == CHOOSE i \in 1..Len(KwNames) : KwNames[i] = n

\* sorted(kwargs.items()): the items compare by name first, and names are unique
RECURSIVE Insert(_, _)
Insert(item, sortedItems) ==
    IF Len(sortedItems) = 0 THEN <<item>>
    ELSE IF Rank(item[1]) <= Rank(sortedItems[1][1])
         THEN <<item>> \o sortedItems
         ELSE <<sortedItems[1]>> \o Insert(item, Tail(sortedItems))

RECURSIVE sorted(_)
sorted(items) ==
    IF Len(items) = 0 THEN <<>> ELSE Insert(items[1], sorted(Tail(items)))

\* repr of one (name, value) item: "('x', 1)"
ReprItem(item) ==
    <<"(", "'">> \o <<item[1]>> \o <<"'">> \o Comma \o Repr(item[2]) \o <<")">>

\* repr of the list of items
ReprItems(items) ==
    <<"[">> \o JoinComma([i \in 1..Len(items) |-> ReprItem(items[i])]) \o <<"]">>

\* to_key(name, *args, **kwargs) binds its first parameter by the keyword
\* "name" too: a call that passes name=... fails with TypeError
to_key_raises(kwargs) == \E i \in 1..Len(kwargs) : kwargs[i][1] = "name"

\* "{0}{1}{2}".format(name, args, sorted(kwargs.items()))
\* the positional tuples that hold the values of args, each as often, in
\* some order
Reorderings(args) ==
    {q \in [1..Len(args) -> {args[i] : i \in 1..Len(args)}] :
        \A v \in {args[i] : i \in 1..Len(args)} :
            Cardinality({i \in 1..Len(args) : q[i] = v})
                = Cardinality({i \in 1..Len(args) : args[i] = v})}

to_key_any_order(name, args, kwargs) ==
    name \o ReprTuple(CHOOSE q \in Reorderings(args) : TRUE)
         \o ReprItems(sorted(kwargs))

to_key_drops_kwargs(name, args, kwargs) == name \o ReprTuple(args) \o ReprItems(<<>>)
to_key_unsorted(name, args, kwargs) == name \o ReprTuple(args) \o ReprItems(kwargs)
to_key(name, args, kwargs) == name \o ReprTuple(args) \o ReprItems(sorted(kwargs))

----------------------------------------------------------------------------
(* The calls the environment makes *)

One == PyInt("1")
Two == PyInt("2")
OneTwoList == PyList(<<"1", "2">>)
OneFloat == PyFloat("1")
DictAB == PyDict(<<"a", "b">>)
DictBA == PyDict(<<"b", "a">>)

\* positional tuples and keyword dictionaries (in insertion order) of the calls
ArgTuples == {<<>>, <<One>>, <<One, Two>>, <<Two, One>>, <<OneTwoList>>}
KwDicts == {<<>>, <<<<"x", One>>, <<"y", Two>>>>, <<<<"y", Two>>, <<"x", One>>>>,
            <<<<"x", Two>>, <<"y", Two>>>>, <<<<"name", One>>>>}

Call(a, kw) == [args |-> a, kwargs |-> kw]
NoCall == Call(<<>>, <<>>)

MemoCalls ==
    {Call(a, <<>>) : a \in ArgTuples} \cup {Call(<<One>>, kw) : kw \in KwDicts}
        \cup {Call(<<v>>, <<>>) : v \in {OneFloat, DictAB, DictBA}}

HasUnhashable(call) ==
    \/ \E i \in 1..Len(call.args) : ~Hashable(call.args[i])
    \/ \E i \in 1..Len(call.kwargs) : ~Hashable(call.kwargs[i][2])

\* what an invocation of a user callable (function, constructor) may do:
\* return one of two results (it need not be pure) or raise
Results == {"r0", "r1"}
Errors == {"TypeError", "ValueError"}
Returns(r) == [kind |-> "ok", val |-> r]
Raises(e) == [kind |-> "raise", val |-> e]
Outcomes == {Returns(r) : r \in Results} \cup {Raises(e) : e \in Errors}

EmptyMap == [k \in {} |-> "none"]
Count(m, k) == IF k \in DOMAIN m THEN m[k] ELSE 0
Bump(m, k) == (k :> (Count(m, k) + 1)) @@ m

RECURSIVE SumOver(_, _)
SumOver(m, ks) ==
    IF ks = {} THEN 0
    ELSE LET k == CHOOSE x \in ks : TRUE IN m[k] + SumOver(m, ks \ {k})
Total(m) == SumOver(m, DOMAIN m)

----------------------------------------------------------------------------
(* decorators.memoized *)

\* str(self.func), the identity the key starts with
FuncStr == <<"<", "f", ">">>

memo_key(call) == to_key(FuncStr, call.args, call.kwargs)

MemoIdle == [call |-> NoCall, path |-> "none", ret |-> "none", raised |-> "none",
             ninv |-> 0]

MemoInit ==
    /\ cache = EmptyMap
    /\ memoInv = EmptyMap
    /\ memoDone = EmptyMap
    /\ memoLast = MemoIdle
    /\ memoCalls = 0
    /\ memoStored = EmptyMap
    /\ memoStack = <<>>
    /\ fRes = EmptyMap

SingletonIdle == [req |-> [cls |-> "none", args |-> <<>>, kwargs |-> <<>>],
                  path |-> "none", ret |-> 0, raised |-> "none", ninv |-> 0]

SingletonInit ==
    /\ instances = EmptyMap
    /\ objects = <<>>
    /\ ctorInv = EmptyMap
    /\ ctorDone = EmptyMap
    /\ sLast = SingletonIdle
    /\ sCalls = 0

BorgIdle == [op |-> "none", cls |-> "none", call |-> NoCall, key |-> <<>>,
             inst |-> 0, attr |-> "none", val |-> <<"None", <<>>>>,
             raised |-> "none", ninit |-> 0, reused |-> FALSE]

BorgInit ==
    /\ shared = EmptyMap
    /\ stores = <<>>
    /\ binst = <<>>
    /\ decorated = {}
    /\ wrapped = EmptyMap
    /\ props = EmptyMap
    /\ bInit = EmptyMap
    /\ bCons = EmptyMap
    /\ lastWritten = EmptyMap
    /\ bLast = BorgIdle
    /\ bWrites = 0

----------------------------------------------------------------------------
(* the guarded call and the key builder: inputs and initial state *)

\* the failure kinds a guarded callable raises, each with the classes it is
\* an instance of; KeyboardInterrupt does not derive from Exception
Kinds == {"ZeroDivisionError", "ValueError", "KeyboardInterrupt"}
Mro(kind) ==
    IF kind = "ZeroDivisionError"
    THEN {"ZeroDivisionError", "ArithmeticError", "Exception", "BaseException"}
    ELSE IF kind = "ValueError" THEN {"ValueError", "Exception", "BaseException"}
    ELSE {kind, "BaseException"}

\* except errors as error: errors is a class or a tuple of classes, and a
\* failure matches when it is an instance of one of them
Matches(kind, errors) == Mro(kind) \cap errors # {}

\* the defaults of wrapper: errors=Exception, msg="Unknown error",
\* error_func=print
DefaultErrors == {"Exception"}
DefaultMsg == "Unknown error"
DefaultHandler == "print"

\* the keyword arguments given to the decorator; func=None, **kwargs
NoOpts == [o \in {} |-> "none"]
WrapOpts ==
    {NoOpts,
     [errors |-> {"ZeroDivisionError"}],
     [errors |-> {"ArithmeticError"}, msg |-> "m1"],
     [errors |-> {"BaseException"}, error_func |-> "handler"],
     [msg |-> "m1"],
     [error_func |-> "handler"],
     [errors |-> {"ValueError", "KeyError"}, msg |-> "m1", error_func |-> "handler"]}

\* real_decorator(func, a, kw, **kwargs): the parameters of wrapper the
\* decorator's keywords leave out take their defaults
Config(opts) ==
    [errors |-> IF "errors" \in DOMAIN opts THEN opts.errors ELSE DefaultErrors,
     msg |-> IF "msg" \in DOMAIN opts THEN opts.msg ELSE DefaultMsg,
     error_func |-> IF "error_func" \in DOMAIN opts THEN opts.error_func
                    ELSE DefaultHandler]

\* what the guarded callable does, and what the handler does when it is
\* invoked: print returns None, a handler of the caller returns or raises
WrapOutcomes == {Returns(r) : r \in Results} \cup {Raises(e) : e \in Kinds}
HandlerOutcomes(error_func) ==
    IF error_func = "print" THEN {Returns("None")}
    ELSE {Returns("h1"), Raises("RuntimeError")}

WrapIdle == [cfg |-> Config(NoOpts), out |-> Returns("none"),
             hout |-> Returns("none"), nfunc |-> 0, nhandler |-> 0,
             hargs |-> <<>>, ret |-> "none", raised |-> "none"]

WrapInit ==
    /\ wLast = WrapIdle
    /\ wCalls = 0
    /\ wFuncInv = 0
    /\ wHandlerInv = 0

\* the calls of to_key whose keys are compared: the name is the text of the
\* identity (the second one ends like an empty positional tuple)
KeyNames == {<<"f">>, <<"f", "(", ")">>, <<"g">>}
KeyArgs == ArgTuples \cup {<<Two>>, <<PyStr("1")>>, <<OneFloat>>}
KeyCall(name, a, kw) == [name |-> name, args |-> a, kwargs |-> kw]
KeyCalls == {KeyCall(n, a, kw) : n \in KeyNames, a \in KeyArgs, kw \in KwDicts}

Unset == [kind |-> "unset", val |-> <<>>]
NoKeyCall == KeyCall(<<>>, <<>>, <<>>)

KeyIdle ==
    /\ kIn = <<NoKeyCall, NoKeyCall>>
    /\ kOut = <<Unset, Unset>>

\* no call of unique_list or merged_list is under way
ListIdle ==
    /\ lIn = <<>>
    /\ lOut = Unset

Init == MemoInit /\ SingletonInit /\ BorgInit /\ WrapInit /\ KeyIdle /\ ListIdle

\* the key builder on its own starts with any two calls to compare
KeyInit ==
    /\ MemoInit /\ SingletonInit /\ BorgInit /\ WrapInit
    /\ kIn \in KeyCalls \X KeyCalls
    /\ kOut = <<Unset, Unset>>
    /\ ListIdle

----------------------------------------------------------------------------
(* decorators.memoized: the call *)

\* except TypeError: return self.func(*args, **kwargs)
memoized_uncached(call, out) ==
    /\ memoLast' = [call |-> call, path |-> "uncached",
                    ret |-> IF out.kind = "ok" THEN out.val ELSE "none",
                    raised |-> IF out.kind = "raise" THEN out.val ELSE "none",
                    ninv |-> 1]
    /\ UNCHANGED <<cache, memoInv, memoDone, memoStored>>

\* return self.cache[key]
memoized_hit_recompute(call, k) ==
    /\ memoLast' = [call |-> call, path |-> "hit", ret |-> cache[k],
                    raised |-> "none", ninv |-> 1]
    /\ memoInv' = Bump(memoInv, k)
    /\ UNCHANGED <<cache, memoDone, memoStored>>

memoized_hit(call, k) ==
    /\ memoLast' = [call |-> call, path |-> "hit", ret |-> cache[k],
                    raised |-> "none", ninv |-> 0]
    /\ UNCHANGED <<cache, memoInv, memoDone, memoStored>>

\* except KeyError: value = self.cache[key] = self.func(*args, **kwargs)
\* (a failure of self.func leaves this handler and the call: the sibling
\* except TypeError clause does not see it)
memoized_miss_nostore(call, k, out) ==
    /\ memoInv' = Bump(memoInv, k)
    /\ memoDone' = IF out.kind = "ok" THEN Bump(memoDone, k) ELSE memoDone
    /\ cache' = cache
    /\ memoStored' = memoStored
    /\ memoLast' = [call |-> call, path |-> "miss",
                    ret |-> IF out.kind = "ok" THEN out.val ELSE "none",
                    raised |-> IF out.kind = "raise" THEN out.val ELSE "none",
                    ninv |-> 1]

memoized_miss_typeerror_fallback(call, k, out) ==
    /\ memoInv' = IF out = Raises("TypeError") THEN Bump(Bump(memoInv, k), k)
                  ELSE Bump(memoInv, k)
    /\ memoDone' = IF out.kind = "ok" THEN Bump(memoDone, k) ELSE memoDone
    /\ cache' = IF out.kind = "ok" THEN (k :> out.val) @@ cache ELSE cache
    /\ memoStored' = IF out.kind = "ok" THEN (k :> call) @@ memoStored ELSE memoStored
    /\ memoLast' = [call |-> call, path |-> "miss",
                    ret |-> IF out.kind = "ok" THEN out.val ELSE "none",
                    raised |-> IF out.kind = "raise" THEN out.val ELSE "none",
                    ninv |-> IF out = Raises("TypeError") THEN 2 ELSE 1]

memoized_miss(call, k, out) ==
    /\ memoInv' = Bump(memoInv, k)
    /\ memoDone' = IF out.kind = "ok" THEN Bump(memoDone, k) ELSE memoDone
    /\ cache' = IF out.kind = "ok" THEN (k :> out.val) @@ cache ELSE cache
    /\ memoStored' = IF out.kind = "ok" THEN (k :> call) @@ memoStored ELSE memoStored
    /\ memoLast' = [call |-> call, path |-> "miss",
                    ret |-> IF out.kind = "ok" THEN out.val ELSE "none",
                    raised |-> IF out.kind = "raise" THEN out.val ELSE "none",
                    ninv |-> 1]

\* memoized.__call__(*args, **kwargs)
memoized_call(call, out) ==
    /\ memoCalls < MaxCalls
    /\ memoCalls' = memoCalls + 1
    /\ IF to_key_raises(call.kwargs)
       THEN memoized_uncached(call, out)
       ELSE IF memo_key(call) \in DOMAIN cache
            THEN memoized_hit(call, memo_key(call))
            ELSE memoized_miss(call, memo_key(call), out)

MemoNext ==
    /\ \E call \in MemoCalls, out \in Outcomes : memoized_call(call, out)
    /\ UNCHANGED <<memoStack, fRes>>
    /\ UNCHANGED <<singletonVars, borgVars, wrapVars, keyVars, listVars>>

SpecMemo == Init /\ [][MemoNext]_vars

----------------------------------------------------------------------------
(* Claims about decorators.memoized *)

\* a memoized call was made in this step
MemoCalled == memoCalls' = memoCalls + 1

\* the key of the call the step made, when to_key gives one
MemoKeyed(call) == ~to_key_raises(call.kwargs)

\* C1 as stated: over any sequence of calls the wrapped callable is invoked at
\* most once per distinct cache key.
C1_InvokedAtMostOncePerKey == \A k \in DOMAIN memoInv : memoInv[k] <= 1

\* C1, amended: the wrapped callable returns normally at most once per distinct
\* cache key, and a call whose key is already in the cache returns the stored
\* result, leaves the cache alone and does not invoke the wrapped callable.
C1_HitStep ==
    (MemoCalled /\ MemoKeyed(memoLast'.call)
                /\ memo_key(memoLast'.call) \in DOMAIN cache)
        => /\ memoLast'.ninv = 0
           /\ memoLast'.raised = "none"
           /\ memoLast'.ret = cache[memo_key(memoLast'.call)]
           /\ memoInv' = memoInv
           /\ cache' = cache

C1_CompletesAtMostOncePerKey ==
    /\ [](\A k \in DOMAIN memoDone : memoDone[k] <= 1)
    /\ [][C1_HitStep]_vars

\* C1 witness: a key whose first invocation failed and whose second one
\* returned is then served from the cache.
C1_Witness ==
    /\ memoLast.path = "hit"
    /\ Count(memoInv, memo_key(memoLast.call)) = 2
    /\ Count(memoDone, memo_key(memoLast.call)) = 1

\* C4 as stated: a call with an unhashable argument invokes the wrapped callable
\* directly (so it returns what the callable produces, and fails only if the
\* callable does) and never adds an entry to the cache.
C4_UnhashableNeverCached ==
    /\ \A call \in MemoCalls :
          (HasUnhashable(call) /\ MemoKeyed(call))
              => memo_key(call) \notin DOMAIN cache
    /\ (memoLast.path # "none" /\ HasUnhashable(memoLast.call))
          => memoLast.ninv = 1

----------------------------------------------------------------------------
(* patterns.Singleton *)

\* the decorated types; str(cls) is "<class 'A'>"
SClasses == {"A", "B"}
ClsStr(cls) == <<"<", "c", "l", "a", "s", "s", " ", "'", cls, "'", ">">>

Request(cls, a, kw) == [cls |-> cls, args |-> a, kwargs |-> kw]

SingletonRequests ==
    {Request("A", a, <<>>) : a \in ArgTuples}
        \cup {Request("A", <<One>>, kw) : kw \in KwDicts}
        \cup {Request("B", a, <<>>) : a \in {<<One>>, <<One, Two>>}}

\* a constructor returns (the instance is built) or raises
CtorOutcomes == {Returns("none"), Raises("ValueError")}

singleton_key_args_only(req) == to_key(<<>>, req.args, req.kwargs)
singleton_key_type_only(req) == to_key(ClsStr(req.cls), <<>>, <<>>)
singleton_key(req) == to_key(ClsStr(req.cls), req.args, req.kwargs)

\* key = utils.to_key(cls, *args, **kwargs) raises: nothing catches it
get_instance_nokey(req) ==
    /\ sLast' = [req |-> req, path |-> "nokey", ret |-> 0, raised |-> "TypeError",
                 ninv |-> 0]
    /\ UNCHANGED <<instances, objects, ctorInv, ctorDone>>

\* return Singleton.__instances[key]
get_instance_hit_reapply(req, k) ==
    /\ sLast' = [req |-> req, path |-> "hit", ret |-> instances[k],
                 raised |-> "none", ninv |-> 0]
    /\ objects' = [objects EXCEPT ![instances[k]] = req]
    /\ UNCHANGED <<instances, ctorInv, ctorDone>>

get_instance_hit(req, k) ==
    /\ sLast' = [req |-> req, path |-> "hit", ret |-> instances[k],
                 raised |-> "none", ninv |-> 0]
    /\ UNCHANGED <<instances, objects, ctorInv, ctorDone>>

\* except KeyError: instance = cls(*args, **kwargs);
\*                  Singleton.__instances[key] = instance; return instance
get_instance_miss_register_first(req, k, out) ==
    /\ ctorInv' = Bump(ctorInv, k)
    /\ ctorDone' = IF out.kind = "ok" THEN Bump(ctorDone, k) ELSE ctorDone
    /\ objects' = Append(objects, req)
    /\ instances' = (k :> Len(objects) + 1) @@ instances
    /\ sLast' = [req |-> req, path |-> "miss",
                 ret |-> IF out.kind = "ok" THEN Len(objects) + 1 ELSE 0,
                 raised |-> IF out.kind = "raise" THEN out.val ELSE "none",
                 ninv |-> 1]

get_instance_miss(req, k, out) ==
    /\ ctorInv' = Bump(ctorInv, k)
    /\ ctorDone' = IF out.kind = "ok" THEN Bump(ctorDone, k) ELSE ctorDone
    /\ objects' = IF out.kind = "ok" THEN Append(objects, req) ELSE objects
    /\ instances' = IF out.kind = "ok"
                     THEN (k :> Len(objects) + 1) @@ instances
                     ELSE instances
    /\ sLast' = [req |-> req, path |-> "miss",
                 ret |-> IF out.kind = "ok" THEN Len(objects) + 1 ELSE 0,
                 raised |-> IF out.kind = "raise" THEN out.val ELSE "none",
                 ninv |-> 1]

\* Singleton.get_instance(cls)(*args, **kwargs)
get_instance_direct_when_unhashable(req, out) ==
    /\ sCalls < MaxRequests
    /\ sCalls' = sCalls + 1
    /\ IF to_key_raises(req.kwargs)
       THEN get_instance_nokey(req)
       ELSE IF HasUnhashable(req)
       THEN /\ sLast' = [req |-> req, path |-> "direct",
                         ret |-> IF out.kind = "ok" THEN Len(objects) + 1 ELSE 0,
                         raised |-> IF out.kind = "raise" THEN out.val ELSE "none",
                         ninv |-> 1]
            /\ objects' = IF out.kind = "ok" THEN Append(objects, req) ELSE objects
            /\ UNCHANGED <<instances, ctorInv, ctorDone>>
       ELSE IF singleton_key(req) \in DOMAIN instances
            THEN get_instance_hit(req, singleton_key(req))
            ELSE get_instance_miss(req, singleton_key(req), out)

get_instance(req, out) ==
    /\ sCalls < MaxRequests
    /\ sCalls' = sCalls + 1
    /\ IF to_key_raises(req.kwargs)
       THEN get_instance_nokey(req)
       ELSE IF singleton_key(req) \in DOMAIN instances
            THEN get_instance_hit(req, singleton_key(req))
            ELSE get_instance_miss(req, singleton_key(req), out)

SingletonNext ==
    /\ \E req \in SingletonRequests, out \in CtorOutcomes : get_instance(req, out)
    /\ UNCHANGED <<memoVars, borgVars, wrapVars, keyVars, listVars>>

SpecSingleton == Init /\ [][SingletonNext]_vars

----------------------------------------------------------------------------
(* Claims about patterns.Singleton *)

\* a request was made in this step
Requested == sCalls' = sCalls + 1

\* two requests have the same key: the same type, the same positional
\* arguments in the same order, the same keyword pairs in any order
Items(kw) == {kw[i] : i \in 1..Len(kw)}
SameRequest(r1, r2) ==
    /\ r1.cls = r2.cls
    /\ r1.args = r2.args
    /\ Items(r1.kwargs) = Items(r2.kwargs)

\* the last request returned an instance
Returned == sLast.path \in {"hit", "miss"} /\ sLast.raised = "none"

\* every request returns the one instance built for its key
ReturnsTheInstanceOfItsKey ==
    /\ Returned =>
          /\ sLast.ret \in 1..Len(objects)
          /\ \A j \in 1..Len(objects) :
                SameRequest(objects[j], sLast.req) <=> j = sLast.ret
    /\ \A i, j \in 1..Len(objects) :
          SameRequest(objects[i], objects[j]) => i = j

\* C2 as stated: a request with the key of an earlier successful request
\* returns the identical instance, and the constructor is invoked exactly once
\* per key.
C2_ConstructorInvokedOncePerKey ==
    /\ ReturnsTheInstanceOfItsKey
    /\ \A k \in DOMAIN instances : Count(ctorInv, k) = 1

\* C2, amended: a request with the key of an earlier successful request
\* returns the identical instance; the constructor returns normally exactly once
\* per registered key (a constructor call that failed registered nothing and
\* was repeated); a hit invokes no constructor and leaves every instance as its
\* own constructor call built it.
C2_HitStep ==
    /\ \A j \in 1..Len(objects) :
          j \in 1..Len(objects') /\ objects'[j] = objects[j]
    /\ \A k \in DOMAIN instances :
          k \in DOMAIN instances' /\ instances'[k] = instances[k]
    /\ (Requested /\ \E j \in 1..Len(objects) : SameRequest(objects[j], sLast'.req))
          => sLast'.ninv = 0 /\ objects' = objects

C2_OneInstancePerKey ==
    /\ [](/\ ReturnsTheInstanceOfItsKey
          /\ \A k \in DOMAIN instances : Count(ctorDone, k) = 1)
    /\ [][C2_HitStep]_vars

\* C2 witness: a request that names its keywords in another order than the
\* request that built the instance gets that instance, built as it was.
C2_Witness ==
    /\ Returned
    /\ sLast.ninv = 0
    /\ sLast.req.kwargs = <<<<"y", Two>>, <<"x", One>>>>
    /\ objects[sLast.ret].kwargs = <<<<"x", One>>, <<"y", Two>>>>

\* the step ran the constructor and the constructor raised
ConstructorFailed == ctorInv' # ctorInv /\ ctorDone' = ctorDone

\* C7: when the constructor fails on a miss the failure reaches the caller and
\* the registry is as it was, with no entry under that key, so the next request
\* with that key invokes the constructor again.
C7_FailedStep ==
    /\ (Requested /\ ConstructorFailed)
          => /\ sLast'.raised \in Errors
             /\ sLast'.ret = 0
             /\ instances' = instances
             /\ objects' = objects
             /\ singleton_key(sLast'.req) \notin DOMAIN instances'
    /\ (Requested /\ ~to_key_raises(sLast'.req.kwargs)
                  /\ singleton_key(sLast'.req) \notin DOMAIN instances)
          => sLast'.ninv = 1

C7_FailedConstructionRegistersNothing == [][C7_FailedStep]_vars

\* C7 witness: the constructor failed, and failed again on the next request
\* with the same key.
C7_Witness ==
    /\ sLast.raised = "ValueError"
    /\ Count(ctorInv, singleton_key(sLast.req)) = 2
    /\ singleton_key(sLast.req) \notin DOMAIN instances

\* C13: a request that returns an instance returns one built for its own
\* argument combination: no instance built for a request of the same type
\* that differs in a positional value, in the positional order or in a keyword
\* pair is returned, so requests with distinct combinations get distinct
\* instance objects.
C13_DistinctArgumentsDistinctInstances ==
    Returned =>
        /\ sLast.ret \in 1..Len(objects)
        /\ \A j \in 1..Len(objects) :
              (/\ objects[j].cls = sLast.req.cls
               /\ \/ objects[j].args # sLast.req.args
                  \/ Items(objects[j].kwargs) # Items(sLast.req.kwargs))
                  => sLast.ret # j

\* C13 witness: three requests of one type, with the positional arguments
\* in two orders and then with one keyword value changed, got three instances.
C13_Witness ==
    /\ Returned /\ sLast.ret = 3 /\ Len(objects) = 3
    /\ objects[1].cls = "A" /\ objects[2].cls = "A" /\ objects[3].cls = "A"
    /\ objects[1].args = <<One, Two>> /\ objects[2].args = <<Two, One>>
    /\ objects[3].args = <<One>>
    /\ <<"x", Two>> \in Items(objects[3].kwargs)

----------------------------------------------------------------------------
(* patterns.Borg: the shared-state registries *)

\* the decorated types: two with an open attribute set, one with
\* __slots__ = ('x', 'y'); each has  def __init__(self, x, y=None)  that sets
\* self.x, then self.y when y is given.  pyrdc/patterns.py is run on an open
\* and on the slotted type, patterns.py (which has no slots branch) on the
\* two open types.
BorgClasses == {"Open", "Slotted"}
OpenClasses == {"Open", "Other"}
Slots(cls) == IF cls = "Slotted" THEN <<"x", "y">> ELSE <<>>
HasSlots(cls) == Len(Slots(cls)) > 0
Attrs == {"x", "y"}

BorgCalls == {Call(<<Two>>, <<>>), Call(<<One, Two>>, <<>>)}
BorgArgsCalls == {Call(<<One>>, <<>>), Call(<<Two>>, <<>>)}

\* the attribute writes one run of __init__ makes; a run that raises does so
\* after it has set self.x
InitWrites(call, out) ==
    <<<<"x", call.args[1]>>>>
        \o (IF out.kind = "raise" THEN <<>>
            ELSE IF Len(call.args) = 2 THEN <<<<"y", call.args[2]>>>>
            ELSE <<>>)

EmptyStore == [a \in {} |-> One]
None == <<"None", <<>>>>
AttributeError == <<"AttributeError", <<>>>>

\* utils.to_key(cls): the key of pyrdc/patterns.py, built from the type alone
borg_key(cls) == to_key(ClsStr(cls), <<>>, <<>>)

\* utils.to_key(cls, *args, **kwargs): the key of patterns.py
borg_args_key(cls, call) == to_key(ClsStr(cls), call.args, call.kwargs)

\* for slot in cls.__slots__: def setter/getter ... [slot] ...
\* the accessors are closures over the loop variable, which they read when
\* they run: after the loop it holds the last slot
bound_slot(slots, slot) == slots[Len(slots)]

\* the store and the attribute name a read or write of inst.attr lands on:
\* the instance's __dict__, or for a slotted type the accessor's
\* Borg.__shared[key][slot]
Lands(sh, pr, inst, attr) ==
    IF inst.dict # 0 THEN <<inst.dict, attr>>
    ELSE <<sh[borg_key(inst.cls)], pr[inst.cls][attr]>>

\* inst.attr = value
Write(st, sh, pr, inst, attr, value) ==
    LET at == Lands(sh, pr, inst, attr)
    IN  [st EXCEPT ![at[1]] = (at[2] :> value) @@ st[at[1]]]

RECURSIVE WriteAll(_, _, _, _, _)
WriteAll(st, sh, pr, inst, writes) ==
    IF Len(writes) = 0 THEN st
    ELSE WriteAll(Write(st, sh, pr, inst, writes[1][1], writes[1][2]),
                  sh, pr, inst, Tail(writes))

\* inst.attr: a missing attribute of an open instance is an AttributeError,
\* a slot never written reads as None (getter: except KeyError: return None)
Read(st, sh, pr, inst, attr) ==
    LET at == Lands(sh, pr, inst, attr)
    IN  IF at[2] \in DOMAIN st[at[1]] THEN st[at[1]][at[2]]
        ELSE IF inst.dict # 0 THEN AttributeError ELSE None

getattr(i, attr) == Read(stores, shared, props, binst[i], attr)

RECURSIVE NoteAll(_, _, _)
NoteAll(lw, k, writes) ==
    IF Len(writes) = 0 THEN lw
    ELSE NoteAll((<<k, writes[1][1]>> :> writes[1][2]) @@ lw, k, Tail(writes))

\* the class decorator's part of outer_inner (pyrdc/patterns.py): a type without
\* the marker gets it, and then either its __init__ wrapped or, with
\* __slots__, a store under its key and an accessor pair per slot
Decorated(cls) == decorated \cup {cls}
Wrapped_unmarked(cls) ==
    IF HasSlots(cls) THEN wrapped
    ELSE (cls :> Count(wrapped, cls) + 1) @@ wrapped
Wrapped(cls) ==
    IF cls \in decorated \/ HasSlots(cls) THEN wrapped
    ELSE (cls :> Count(wrapped, cls) + 1) @@ wrapped
Props(cls) ==
    IF cls \in decorated \/ ~HasSlots(cls) THEN props
    ELSE (cls :> [s \in {Slots(cls)[i] : i \in 1..Len(Slots(cls))}
                     |-> bound_slot(Slots(cls), s)]) @@ props
SlotStores(cls) ==
    IF cls \in decorated \/ ~HasSlots(cls) THEN stores ELSE Append(stores, EmptyStore)
SlotShared(cls) ==
    IF cls \in decorated \/ ~HasSlots(cls) THEN shared
    ELSE (borg_key(cls) :> Len(stores) + 1) @@ shared

\* what the construction leaves behind, given the registry sh and the stores st
\* after attaching, the new instance and whether its initializer ran
Constructed(cls, call, out, k, sh, st, inst, ran, reused) ==
    LET writes == IF ran THEN InitWrites(call, out) ELSE <<>>
        failed == ran /\ out.kind = "raise"
    IN  /\ shared' = sh
        /\ stores' = WriteAll(st, sh, Props(cls), inst, writes)
        /\ binst' = IF failed THEN binst ELSE Append(binst, inst)
        /\ decorated' = Decorated(cls)
        /\ wrapped' = Wrapped(cls)
        /\ props' = Props(cls)
        /\ bInit' = IF ran THEN Bump(bInit, k) ELSE bInit
        /\ bCons' = Bump(bCons, k)
        /\ lastWritten' = NoteAll(lastWritten, k, writes)
        /\ bLast' = [op |-> "construct", cls |-> cls, call |-> call, key |-> k,
                     inst |-> IF failed THEN 0 ELSE Len(binst) + 1,
                     attr |-> "none", val |-> None,
                     raised |-> IF failed THEN out.val ELSE "none",
                     ninit |-> IF ran THEN 1 ELSE 0, reused |-> reused]
        /\ UNCHANGED bWrites

\* inner(self, *args, **kwargs) of pyrdc/patterns.py, as cls.__init__:
\*   try: self.__dict__ = Borg.__shared[key]
\*   except KeyError: self.__dict__ = Borg.__shared[key] = {}
\*   finally: func(self, *args, **kwargs)
inner_init_once(cls, call, out) ==
    LET k == borg_key(cls)
        hit == k \in DOMAIN shared
        st == IF hit THEN stores ELSE Append(stores, EmptyStore)
        sh == IF hit THEN shared ELSE (k :> Len(stores) + 1) @@ shared
    IN  Constructed(cls, call, out, k, sh, st,
                    [cls |-> cls, call |-> call, key |-> k, dict |-> sh[k]], ~hit, hit)

inner_fresh_dict(cls, call, out) ==
    LET k == borg_key(cls)
        hit == k \in DOMAIN shared
        st == Append(stores, EmptyStore)
        sh == IF hit THEN shared ELSE (k :> Len(stores) + 1) @@ shared
    IN  Constructed(cls, call, out, k, sh, st,
                    [cls |-> cls, call |-> call, key |-> k, dict |-> Len(stores) + 1], TRUE, hit)

inner(cls, call, out) ==
    LET k == borg_key(cls)
        hit == k \in DOMAIN shared
        st == IF hit THEN stores ELSE Append(stores, EmptyStore)
        sh == IF hit THEN shared ELSE (k :> Len(stores) + 1) @@ shared
    IN  Constructed(cls, call, out, k, sh, st,
                    [cls |-> cls, call |-> call, key |-> k, dict |-> sh[k]], TRUE, hit)

\* a slotted type keeps its own __init__; its instances have no __dict__
slotted_init(cls, call, out) ==
    LET k == borg_key(cls)
    IN  Constructed(cls, call, out, k, SlotShared(cls), SlotStores(cls),
                    [cls |-> cls, call |-> call, key |-> k, dict |-> 0], TRUE, cls \in decorated)

\* Borg.share(cls)(*args, **kwargs) of pyrdc/patterns.py: outer_inner
share(cls, call, out) ==
    /\ Total(bCons) < MaxObjects
    /\ IF HasSlots(cls) THEN slotted_init(cls, call, out) ELSE inner(cls, call, out)

\* inst.attr = value, from outside
set_attr(i, attr, value) ==
    /\ bWrites < MaxWrites
    /\ bWrites' = bWrites + 1
    /\ stores' = Write(stores, shared, props, binst[i], attr, value)
    /\ lastWritten' = (<<binst[i].key, attr>> :> value) @@ lastWritten
    /\ bLast' = [op |-> "write", cls |-> binst[i].cls, call |-> binst[i].call,
                 key |-> binst[i].key, inst |-> i, attr |-> attr, val |-> value,
                 raised |-> "none", ninit |-> 0, reused |-> FALSE]
    /\ UNCHANGED <<shared, binst, decorated, wrapped, props, bInit, bCons>>

Construct ==
    /\ \E cls \in BorgClasses, call \in BorgCalls, out \in CtorOutcomes :
          share(cls, call, out)
    /\ UNCHANGED <<memoVars, singletonVars, wrapVars, keyVars, listVars>>

SetAttr ==
    /\ \E i \in 1..Len(binst), attr \in Attrs, value \in {One, Two} :
          set_attr(i, attr, value)
    /\ UNCHANGED <<memoVars, singletonVars, wrapVars, keyVars, listVars>>

BorgNext == Construct \/ SetAttr

SpecBorg == Init /\ [][BorgNext]_vars

\* inside_inner(self, *args, **kwargs) of patterns.py, as cls.__init__:
\*   key = utils.to_key(cls, *args, **kwargs)
\*   try: self.__dict__ = Borg.__shared[key]
\*   except KeyError: self.__dict__ = Borg.__shared[key] = {}
\*                    func(self, *args, **kwargs)
inside_inner_type_key(cls, call, out) ==
    LET k == borg_key(cls)
        hit == k \in DOMAIN shared
        st == IF hit THEN stores ELSE Append(stores, EmptyStore)
        sh == IF hit THEN shared ELSE (k :> Len(stores) + 1) @@ shared
    IN  Constructed(cls, call, out, k, sh, st,
                    [cls |-> cls, call |-> call, key |-> k, dict |-> sh[k]],
                    ~hit, hit)

inside_inner(cls, call, out) ==
    LET k == borg_args_key(cls, call)
        hit == k \in DOMAIN shared
        st == IF hit THEN stores ELSE Append(stores, EmptyStore)
        sh == IF hit THEN shared ELSE (k :> Len(stores) + 1) @@ shared
    IN  Constructed(cls, call, out, k, sh, st,
                    [cls |-> cls, call |-> call, key |-> k, dict |-> sh[k]],
                    ~hit, hit)

\* Borg.share(cls)(*args, **kwargs) of patterns.py: outer_inner
share_args(cls, call, out) ==
    /\ Total(bCons) < MaxObjects
    /\ inside_inner(cls, call, out)

ConstructArgs ==
    /\ \E cls \in OpenClasses, call \in BorgArgsCalls, out \in CtorOutcomes :
          share_args(cls, call, out)
    /\ UNCHANGED <<memoVars, singletonVars, wrapVars, keyVars, listVars>>

BorgArgsNext == ConstructArgs \/ SetAttr

SpecBorgArgs == Init /\ [][BorgArgsNext]_vars

----------------------------------------------------------------------------
(* Claims about patterns.Borg *)

\* a construction, or a write from outside, was made in this step
Constructing == Total(bCons') = Total(bCons) + 1
Writing == bWrites' = bWrites + 1

Insts == 1..Len(binst)
IsOpen(i) == binst[i].dict # 0

\* inst.attr as read after the step
ReadAfter(i, attr) == Read(stores', shared', props', binst'[i], attr)

\* the value written last under the instance's key is the value read
ReadsLastWritten(i) ==
    \A attr \in Attrs :
        <<binst[i].key, attr>> \in DOMAIN lastWritten
            => getattr(i, attr) = lastWritten[<<binst[i].key, attr>>]

\* C3: open-attribute strategy: the instances constructed for one key refer
\* to one attribute store, the one registered under the key, so an attribute
\* read through any of them is the value written last through any of them;
\* every construction returns a new instance object.
C3_OneStore ==
    /\ \A i, j \in Insts :
          (IsOpen(i) /\ IsOpen(j) /\ binst[i].key = binst[j].key)
              => /\ binst[i].dict = binst[j].dict
                 /\ binst[i].dict = shared[binst[i].key]
    /\ \A i \in Insts : IsOpen(i) => ReadsLastWritten(i)

C3_NewObject ==
    (Constructing /\ bLast'.raised = "none")
        => bLast'.inst \notin Insts /\ binst' = Append(binst, binst'[bLast'.inst])

C3_OpenInstancesShareOneStore == []C3_OneStore /\ [][C3_NewObject]_vars

\* C3 witness: a write through the first of two open instances of one type
\* changed what the second one reads.
C3_Witness ==
    /\ bLast.op = "write" /\ bLast.inst = 1 /\ bLast.attr = "x"
    /\ Len(binst) >= 2
    /\ IsOpen(1) /\ IsOpen(2)
    /\ binst[1].cls = binst[2].cls
    /\ binst[1].call.args[1] = One /\ binst[2].call.args[1] = One
    /\ getattr(2, "x") = Two

\* C5 as stated: slots strategy with two declared attributes: a write of
\* attribute a through any instance sets the value read for a and leaves the
\* value read for every other declared attribute as it was.
C5_WriteStep ==
    (Writing /\ HasSlots(bLast'.cls))
        => \A j \in Insts :
              HasSlots(binst[j].cls)
                  => /\ ReadAfter(j, bLast'.attr) = bLast'.val
                     /\ \A b \in Attrs \ {bLast'.attr} :
                           ReadAfter(j, b) = getattr(j, b)

C5_AccessorsBoundToOwnSlot == [][C5_WriteStep]_vars

\* C6 as stated: when the initializer fails during a construction for a key
\* that had no store, no store is registered under that key afterwards.
C6_FailedStep ==
    (Constructing /\ bLast'.raised # "none" /\ bLast'.key \notin DOMAIN shared)
        => bLast'.key \notin DOMAIN shared'

C6_FailedInitRegistersNothing == [][C6_FailedStep]_vars

\* C8: pyrdc/patterns.py: the initializer runs on every construction, also on
\* one that reuses the store: as many initializer runs as constructions.
C8_InitializerRunsOnEveryConstruction ==
    /\ \A k \in DOMAIN bCons : Count(bInit, k) = bCons[k]
    /\ bLast.op = "construct" => bLast.ninit = 1

\* C8 witness: a construction of an open type that found the store of an
\* earlier construction ran the initializer again.
C8_Witness ==
    /\ bLast.op = "construct" /\ bLast.reused /\ ~HasSlots(bLast.cls)
    /\ bLast.ninit = 1
    /\ Count(bInit, bLast.key) = 2

\* C9 as stated: pyrdc/patterns.py: the instances of one type share one state
\* whatever their constructor arguments, and after a construction every
\* earlier instance of the type reads, for each attribute the initializer
\* wrote, the value it wrote.
C9_InstancesOfATypeShareState ==
    /\ \A i, j \in Insts :
          binst[i].cls = binst[j].cls
              => \A attr \in Attrs : getattr(i, attr) = getattr(j, attr)
    /\ (bLast.op = "construct" /\ bLast.raised = "none")
          => \A i \in Insts :
                (i < bLast.inst /\ binst[i].cls = bLast.cls)
                    => LET ws == InitWrites(bLast.call, Returns("none"))
                       IN  \A n \in 1..Len(ws) : getattr(i, ws[n][1]) = ws[n][2]

\* two instances were constructed with the same key: the same type and the
\* same constructor arguments
SameKey(i, j) ==
    /\ binst[i].cls = binst[j].cls
    /\ binst[i].call.args = binst[j].call.args
    /\ Items(binst[i].call.kwargs) = Items(binst[j].call.kwargs)

\* C10: patterns.py: instances share a store exactly when their keys (type
\* plus constructor arguments) are equal, of the constructions with one key
\* only the first runs the initializer, and neither a write nor a construction
\* with one key changes what is read through the instances of another key.
C10_StorePerKey ==
    /\ \A i, j \in Insts : SameKey(i, j) <=> binst[i].dict = binst[j].dict
    /\ \A k \in DOMAIN bCons : Count(bInit, k) = 1
    /\ bLast.op = "construct" => (bLast.ninit = 1 <=> bCons[bLast.key] = 1)

C10_OtherKeysStep ==
    \A j \in Insts :
        ~(binst[j].cls = bLast'.cls /\ binst[j].call = bLast'.call)
            => \A attr \in Attrs : ReadAfter(j, attr) = getattr(j, attr)

C10_ArgumentKeyedStores == []C10_StorePerKey /\ [][C10_OtherKeysStep]_vars

\* C10 witness: of three instances of one type the two built with equal
\* arguments read the value just written through one of them, and the third,
\* built with other arguments, still reads its own.
C10_Witness ==
    /\ bLast.op = "write" /\ bLast.inst = 1 /\ bLast.attr = "x"
    /\ Len(binst) = 3
    /\ binst[1].cls = binst[2].cls /\ binst[2].cls = binst[3].cls
    /\ binst[1].call = binst[2].call
    /\ binst[1].call.args[1] = One /\ binst[3].call.args[1] = Two
    /\ bLast.val = One
    /\ getattr(1, "x") = One /\ getattr(2, "x") = One /\ getattr(3, "x") = Two
    /\ Count(bInit, binst[1].key) = 1 /\ bCons[binst[1].key] = 2

\* C11 as stated: slots strategy: a declared attribute that was never written
\* reads as None, and an attribute that was written reads, through every
\* instance of the type, as the value written to it last.
C11_SlotsReadNoneThenShared ==
    \A i \in Insts :
        HasSlots(binst[i].cls)
            => /\ \A attr \in Attrs :
                     <<binst[i].key, attr>> \notin DOMAIN lastWritten
                         => getattr(i, attr) = None
               /\ ReadsLastWritten(i)

\* C12: a type is decorated once: a decorated open type has its initializer
\* wrapped exactly once, a decorated slotted type has its accessors and an
\* unwrapped initializer, every construction runs the initializer once, and a
\* construction of a type that bears the marker changes neither the wrapping
\* nor the accessors of any decorated type.
C12_WrappedOnce ==
    /\ \A cls \in decorated :
          /\ Count(wrapped, cls) = (IF HasSlots(cls) THEN 0 ELSE 1)
          /\ HasSlots(cls) <=> cls \in DOMAIN props
    /\ bLast.op = "construct" => bLast.ninit = 1

C12_MarkedStep ==
    /\ decorated \subseteq decorated'
    /\ \A cls \in decorated :
          /\ Count(wrapped', cls) = Count(wrapped, cls)
          /\ cls \in DOMAIN props
                => cls \in DOMAIN props' /\ props'[cls] = props[cls]

C12_DecoratedAtMostOnce == []C12_WrappedOnce /\ [][C12_MarkedStep]_vars

\* C12 witness: both types are decorated, a second construction of the
\* slotted type found the marker, and the open type's initializer is wrapped
\* once.
C12_Witness ==
    /\ bLast.op = "construct" /\ bLast.reused /\ HasSlots(bLast.cls)
    /\ decorated = BorgClasses
    /\ Count(wrapped, "Open") = 1
    /\ Count(bCons, borg_key("Open")) >= 1
    /\ bCons[bLast.key] >= 2

----------------------------------------------------------------------------
(* exc.wrapper and decorators.error_wrapper: the guarded call *)

\* one guarded call: func was invoked nfunc times with the last outcome out;
\* when caught, error_func(error, msg) was invoked and, when swallowed, its
\* outcome is the outcome of the call
Guarded(cfg, out, hout, caught, swallowed, nfunc) ==
    /\ wCalls < MaxGuarded
    /\ wCalls' = wCalls + 1
    /\ wFuncInv' = wFuncInv + nfunc
    /\ wHandlerInv' = wHandlerInv + (IF caught THEN 1 ELSE 0)
    /\ wLast' = [cfg |-> cfg, out |-> out,
                 hout |-> IF caught THEN hout ELSE Returns("none"),
                 nfunc |-> nfunc,
                 nhandler |-> IF caught THEN 1 ELSE 0,
                 hargs |-> IF caught THEN <<out.val, cfg.msg>> ELSE <<>>,
                 ret |-> IF out.kind = "ok" THEN out.val
                         ELSE IF caught /\ swallowed /\ hout.kind = "ok" THEN hout.val
                         ELSE "none",
                 raised |-> IF out.kind = "ok" THEN "none"
                            ELSE IF ~(caught /\ swallowed) THEN out.val
                            ELSE IF hout.kind = "raise" THEN hout.val
                            ELSE "none"]

\* wrapper(func, args, kwargs, errors, msg, error_func):
\*   try: return func(*args, **kwargs)
\*   except errors as error: return error_func(error, msg)
wrapper_handle_and_raise(cfg, out, hout) ==
    Guarded(cfg, out, hout, out.kind = "raise" /\ Matches(out.val, cfg.errors),
            FALSE, 1)

wrapper_catch_all(cfg, out, hout) ==
    Guarded(cfg, out, hout, out.kind = "raise", TRUE, 1)

wrapper_retry(cfg, out, hout) ==
    Guarded(cfg, out, hout, out.kind = "raise" /\ Matches(out.val, cfg.errors),
            TRUE, IF out.kind = "raise" THEN 2 ELSE 1)

wrapper(cfg, out, hout) ==
    Guarded(cfg, out, hout, out.kind = "raise" /\ Matches(out.val, cfg.errors),
            TRUE, 1)

\* error_wrapper = optional_arguments_decorator(wrapper): a call of the
\* decorated function is wrapper(func, a, kw, **kwargs)
error_wrapper ==
    /\ \E opts \in WrapOpts, out \in WrapOutcomes :
          \E hout \in HandlerOutcomes(Config(opts).error_func) :
              wrapper(Config(opts), out, hout)
    /\ UNCHANGED <<memoVars, singletonVars, borgVars, keyVars, listVars>>

WrapNext == error_wrapper

SpecWrap == Init /\ [][WrapNext]_vars

----------------------------------------------------------------------------
(* Claims about the guarded call *)

\* the last guarded call: its callable failed, with a kind the configured
\* errors match
Failed == wCalls > 0 /\ wLast.out.kind = "raise"
Recognized == Failed /\ Matches(wLast.out.val, wLast.cfg.errors)

\* the handler was invoked once with (failure, message); when it returned,
\* its result is the result of the call and nothing propagates
Handled ==
    /\ wLast.nhandler = 1
    /\ wLast.hargs = <<wLast.out.val, wLast.cfg.msg>>
    /\ wLast.raised # wLast.out.val
    /\ wLast.hout.kind = "ok" => wLast.ret = wLast.hout.val /\ wLast.raised = "none"
    /\ wLast.hout.kind = "raise" => wLast.ret = "none" /\ wLast.raised = wLast.hout.val
    /\ wLast.cfg.error_func = "print" => wLast.ret = "None"

\* C14 as stated: a failure of a kind contained in the configured errors, and
\* by default any failure, is handed to the handler once, the handler's result
\* is the result of the call and the failure does not propagate.
C14_RecognizedOrDefaultIsHandled ==
    (Failed /\ (Recognized \/ wLast.cfg.errors = DefaultErrors)) => Handled

\* C14, amended: a failure that is an instance of one of the configured error
\* classes (by default Exception, which KeyboardInterrupt is not) is handed to
\* the handler once as (failure, message), the handler's result is the result
\* of the call and the failure does not propagate.
C14_RecognizedIsHandled ==
    /\ Recognized => Handled
    /\ wHandlerInv <= wCalls

\* C14 witness: under the default configuration a ZeroDivisionError was
\* printed with the default message and the call returned None.
C14_Witness ==
    /\ Recognized /\ wLast.cfg = Config(NoOpts)
    /\ wLast.out.val = "ZeroDivisionError"
    /\ wLast.hargs = <<"ZeroDivisionError", "Unknown error">>
    /\ wLast.ret = "None" /\ wLast.raised = "none"

\* C15: a failure of a kind the configured errors do not match propagates as
\* it is, and the handler is not invoked.
C15_UnrecognizedPropagates ==
    (Failed /\ ~Recognized)
        => /\ wLast.raised = wLast.out.val
           /\ wLast.ret = "none"
           /\ wLast.nhandler = 0 /\ wLast.hargs = <<>>

\* C15 witness: with errors=ZeroDivisionError a ValueError left the call.
C15_Witness ==
    /\ Failed /\ ~Recognized
    /\ wLast.cfg.errors = {"ZeroDivisionError"}
    /\ wLast.out.val = "ValueError" /\ wLast.raised = "ValueError"

\* C16: a callable that completes normally gives the call its result and the
\* handler is not invoked; whatever the outcome, a guarded call invokes the
\* callable exactly once.
C16_NormalResultAndNoRetry ==
    /\ (wCalls > 0 /\ wLast.out.kind = "ok")
          => /\ wLast.ret = wLast.out.val /\ wLast.raised = "none"
             /\ wLast.nhandler = 0
    /\ wCalls > 0 => wLast.nfunc = 1
    /\ wFuncInv = wCalls

\* C16 witness: a call that returned r1 after a call whose failure was
\* handled: two calls, two invocations of the callable.
C16_Witness ==
    /\ wCalls = 2 /\ wFuncInv = 2 /\ wHandlerInv = 1
    /\ wLast.out = Returns("r1") /\ wLast.ret = "r1"

----------------------------------------------------------------------------
(* utils.to_key on its own *)

\* utils.to_key(name, *args, **kwargs) applied to one of the two calls
to_key_call(i) ==
    /\ kOut[i] = Unset
    /\ kOut' = [kOut EXCEPT ![i] =
                   IF to_key_raises(kIn[i].kwargs) THEN Raises("TypeError")
                   ELSE Returns(to_key(kIn[i].name, kIn[i].args, kIn[i].kwargs))]
    /\ UNCHANGED kIn

BuildKey ==
    /\ \E i \in {1, 2} : to_key_call(i)
    /\ UNCHANGED <<memoVars, singletonVars, borgVars, wrapVars, listVars>>

KeyNext == BuildKey

SpecKey == KeyInit /\ [][KeyNext]_vars

----------------------------------------------------------------------------
(* Claims about the key of a call *)

\* the keyword names of a call and the value given under a name
Names(kw) == {kw[i][1] : i \in 1..Len(kw)}
Value(kw, n) == kw[CHOOSE i \in 1..Len(kw) : kw[i][1] = n][2]

\* two calls give the same positional arguments in the same order and the
\* same keyword pairs in any order
SameCall(c1, c2) == c1.args = c2.args /\ Items(c1.kwargs) = Items(c2.kwargs)

\* two calls give arguments that are equal by value (==), position by
\* position and keyword by keyword
EqCall(c1, c2) ==
    /\ Len(c1.args) = Len(c2.args)
    /\ \A i \in 1..Len(c1.args) : PyEq(c1.args[i], c2.args[i])
    /\ Names(c1.kwargs) = Names(c2.kwargs)
    /\ \A n \in Names(c1.kwargs) : PyEq(Value(c1.kwargs, n), Value(c2.kwargs, n))

\* ... and each argument has the same repr text as the one it equals
EqReprCall(c1, c2) ==
    /\ EqCall(c1, c2)
    /\ \A i \in 1..Len(c1.args) : Repr(c1.args[i]) = Repr(c2.args[i])
    /\ \A n \in Names(c1.kwargs) :
          Repr(Value(c1.kwargs, n)) = Repr(Value(c2.kwargs, n))

\* the call of this step has key k, finds the result stored under k and
\* returns it without invoking the callable
HitsStored(k) ==
    /\ memo_key(memoLast'.call) = k
    /\ memoLast'.path = "hit" /\ memoLast'.ninv = 0
    /\ memoLast'.ret = cache[k] /\ memoLast'.raised = "none"
    /\ memoInv' = memoInv /\ cache' = cache

\* C17: the key does not depend on the order of the keyword arguments: a call
\* with the positional arguments and the keyword pairs of a call whose result
\* is stored, the pairs in any order, has the key of that call and is a hit.
C17_KeywordOrderStep ==
    (MemoCalled /\ MemoKeyed(memoLast'.call))
        => \A k \in DOMAIN memoStored :
              SameCall(memoStored[k], memoLast'.call) => HitsStored(k)

C17_KeywordOrderIndependent == [][C17_KeywordOrderStep]_vars

\* C17 witness: f(1, y=2, x=1) was a hit on the result stored by
\* f(1, x=1, y=2).
C17_Witness ==
    /\ memoLast.path = "hit"
    /\ memoLast.call = Call(<<One>>, <<<<"y", Two>>, <<"x", One>>>>)
    /\ memo_key(memoLast.call) \in DOMAIN memoStored
    /\ memoStored[memo_key(memoLast.call)]
          = Call(<<One>>, <<<<"x", One>>, <<"y", Two>>>>)

\* C19 as stated: a call whose arguments are equal by value to those of a call
\* whose result is stored has the key of that call, is a hit and does not
\* invoke the callable.
C19_EqualValuesStep ==
    (MemoCalled /\ MemoKeyed(memoLast'.call))
        => \A k \in DOMAIN memoStored :
              EqCall(memoStored[k], memoLast'.call) => HitsStored(k)

C19_EqualValuesHit == [][C19_EqualValuesStep]_vars

\* C19, amended: a call whose arguments are equal by value to those of a call
\* whose result is stored, and have the same repr text (the same types,
\* dictionaries iterating in the same order), has the key of that call, is a
\* hit and does not invoke the callable; keyword arguments may come in any
\* order.
C19_EqualReprStep ==
    (MemoCalled /\ MemoKeyed(memoLast'.call))
        => \A k \in DOMAIN memoStored :
              EqReprCall(memoStored[k], memoLast'.call) => HitsStored(k)

C19_EqualValuesOfEqualReprHit == [][C19_EqualReprStep]_vars

\* C19 witness: a second f({'a': 0, 'b': 0}) was a hit, while the equal
\* dictionary that iterates b first has an entry of its own.
C19_Witness ==
    /\ memoLast.path = "hit" /\ memoLast.ninv = 0
    /\ memoLast.call = Call(<<DictAB>>, <<>>)
    /\ memo_key(Call(<<DictBA>>, <<>>)) \in DOMAIN cache
    /\ memo_key(Call(<<DictBA>>, <<>>)) # memo_key(memoLast.call)

\* both keys are built
Built == kOut[1].kind = "ok" /\ kOut[2].kind = "ok"

\* C18: the key depends on the order of the positional arguments: two calls
\* with one name and the same keyword pairs whose positional arguments are
\* the same values in different orders have different keys.
C18_PositionalOrderMatters ==
    (/\ Built
     /\ kIn[1].name = kIn[2].name
     /\ Items(kIn[1].kwargs) = Items(kIn[2].kwargs)
     /\ kIn[1].args # kIn[2].args
     /\ kIn[1].args \in Reorderings(kIn[2].args))
        => kOut[1].val # kOut[2].val

\* C18 witness: the keys of f(1, 2) and f(2, 1) are built and differ.
C18_Witness ==
    /\ Built
    /\ kIn[1] = KeyCall(<<"f">>, <<One, Two>>, <<>>)
    /\ kIn[2] = KeyCall(<<"f">>, <<Two, One>>, <<>>)
    /\ kOut[1].val # kOut[2].val

\* C20: two calls have one key only if they have the same name, the same
\* positional arguments position by position and the same keyword pairs: calls
\* that differ in the name, in a positional value or in a keyword pair never
\* have the same key.
C20_EqualKeysOnlyForEqualCalls ==
    (Built /\ kOut[1].val = kOut[2].val)
        => /\ kIn[1].name = kIn[2].name
           /\ kIn[1].args = kIn[2].args
           /\ Items(kIn[1].kwargs) = Items(kIn[2].kwargs)

\* C20 witness: two calls that differ only in the value of the keyword x have
\* different keys.
C20_Witness ==
    /\ Built
    /\ kOut[1].val # kOut[2].val
    /\ kIn[1].name = kIn[2].name /\ kIn[1].args = kIn[2].args
    /\ kIn[1].kwargs = <<<<"x", One>>, <<"y", Two>>>>
    /\ kIn[2].kwargs = <<<<"x", Two>>, <<"y", Two>>>>

----------------------------------------------------------------------------
(* decorators.memoized when the callable calls the wrapper while it computes *)

\* the calls made to a callable that may call its own wrapper, as the
\* recursive fibonacci does
NestedCalls ==
    {Call(<<One>>, <<>>), Call(<<Two>>, <<>>),
     Call(<<One>>, <<<<"x", One>>, <<"y", Two>>>>),
     Call(<<One>>, <<<<"name", One>>>>)}

\* memoized.__call__ up to the point where it returns the stored result or
\* invokes self.func; a call made while the stack is not empty is made by the
\* callable of the innermost pending call
memoized_enter(call) ==
    /\ memoCalls < MaxCalls
    /\ memoCalls' = memoCalls + 1
    /\ IF ~to_key_raises(call.kwargs) /\ memo_key(call) \in DOMAIN cache
       THEN /\ memoized_hit(call, memo_key(call))
            /\ UNCHANGED memoStack
       ELSE /\ Len(memoStack) < MaxDepth
            /\ memoStack' = Append(memoStack, call)
            /\ memoInv' = IF to_key_raises(call.kwargs) THEN memoInv
                          ELSE Bump(memoInv, memo_key(call))
            /\ memoLast' = [call |-> call, path |-> "enter", ret |-> "none",
                            raised |-> "none", ninv |-> 1]
            /\ UNCHANGED <<cache, memoDone, memoStored>>

\* self.func returns or raises in the innermost pending call:
\*   value = self.cache[key] = self.func(*args, **kwargs); return value
\* or, on the TypeError path,  return self.func(*args, **kwargs)
memoized_leave_keep_first(out) ==
    LET call == memoStack[Len(memoStack)]
        keyed == ~to_key_raises(call.kwargs)
        put == keyed /\ out.kind = "ok" /\ memo_key(call) \notin DOMAIN cache
    IN  /\ Len(memoStack) > 0
        /\ memoStack' = SubSeq(memoStack, 1, Len(memoStack) - 1)
        /\ cache' = IF put THEN (memo_key(call) :> out.val) @@ cache ELSE cache
        /\ memoStored' = IF put THEN (memo_key(call) :> call) @@ memoStored
                         ELSE memoStored
        /\ memoDone' = IF keyed /\ out.kind = "ok" THEN Bump(memoDone, memo_key(call))
                       ELSE memoDone
        /\ memoLast' = [call |-> call, path |-> IF keyed THEN "miss" ELSE "uncached",
                        ret |-> IF out.kind = "ok" THEN out.val ELSE "none",
                        raised |-> IF out.kind = "raise" THEN out.val ELSE "none",
                        ninv |-> 1]
        /\ UNCHANGED <<memoInv, memoCalls>>

memoized_leave(out) ==
    LET call == memoStack[Len(memoStack)]
        keyed == ~to_key_raises(call.kwargs)
        put == keyed /\ out.kind = "ok"
    IN  /\ Len(memoStack) > 0
        /\ memoStack' = SubSeq(memoStack, 1, Len(memoStack) - 1)
        /\ cache' = IF put THEN (memo_key(call) :> out.val) @@ cache ELSE cache
        /\ memoStored' = IF put THEN (memo_key(call) :> call) @@ memoStored
                         ELSE memoStored
        /\ memoDone' = IF put THEN Bump(memoDone, memo_key(call)) ELSE memoDone
        /\ memoLast' = [call |-> call, path |-> IF keyed THEN "miss" ELSE "uncached",
                        ret |-> IF out.kind = "ok" THEN out.val ELSE "none",
                        raised |-> IF out.kind = "raise" THEN out.val ELSE "none",
                        ninv |-> 1]
        /\ UNCHANGED <<memoInv, memoCalls>>

MemoEnter ==
    /\ \E call \in NestedCalls : memoized_enter(call)
    /\ UNCHANGED <<fRes, singletonVars, borgVars, wrapVars, keyVars, listVars>>

MemoLeave ==
    /\ \E out \in Outcomes : memoized_leave(out)
    /\ UNCHANGED <<fRes, singletonVars, borgVars, wrapVars, keyVars, listVars>>

MemoNestedNext == MemoEnter \/ MemoLeave

SpecMemoNested == Init /\ [][MemoNestedNext]_vars

\* C21 as stated: once a key is in the cache its stored result is never
\* replaced and the key is never removed, whatever calls are made, calls the
\* callable makes to its own wrapper while it computes included.
C21_WriteOnceStep ==
    \A k \in DOMAIN cache : k \in DOMAIN cache' /\ cache'[k] = cache[k]

C21_EntriesAreWriteOnce == [][C21_WriteOnceStep]_vars

----------------------------------------------------------------------------
(* decorators.memoized around a deterministic callable *)

\* the arguments as the callable receives them: the positional values in
\* order and the keyword pairs as a mapping
Canon(call) == [args |-> call.args, kwargs |-> Items(call.kwargs)]

\* memoized.__call__ when self.func is deterministic: invoked again on
\* arguments it has seen, it does what it did then
memoized_call_det(call, out) ==
    /\ Canon(call) \in DOMAIN fRes => out = fRes[Canon(call)]
    /\ memoized_call(call, out)
    /\ fRes' = IF memoLast'.ninv = 1 THEN (Canon(call) :> out) @@ fRes ELSE fRes
    /\ UNCHANGED memoStack

MemoDetNext ==
    /\ \E call \in MemoCalls, out \in Outcomes : memoized_call_det(call, out)
    /\ UNCHANGED <<singletonVars, borgVars, wrapVars, keyVars, listVars>>

SpecMemoDet == Init /\ [][MemoDetNext]_vars

\* C22: with a deterministic callable every call of the wrapper, hit or miss,
\* returns what the callable returns on those arguments, or raises what it
\* raises: the call's arguments are ones the callable has been invoked on, and
\* the outcome of the call is the outcome of that invocation.
C22_Transparent ==
    memoLast.path # "none"
        => /\ Canon(memoLast.call) \in DOMAIN fRes
           /\ LET direct == fRes[Canon(memoLast.call)]
              IN  /\ direct.kind = "ok"
                        => memoLast.ret = direct.val /\ memoLast.raised = "none"
                  /\ direct.kind = "raise"
                        => memoLast.raised = direct.val /\ memoLast.ret = "none"

\* C22 witness: f(1, y=2, x=1) was served from the cache with the result r1
\* that f returned for f(1, x=1, y=2), after f(1) had returned r0.
C22_Witness ==
    /\ memoLast.path = "hit" /\ memoLast.ret = "r1"
    /\ memoLast.call = Call(<<One>>, <<<<"y", Two>>, <<"x", One>>>>)
    /\ fRes[Canon(memoLast.call)] = Returns("r1")
    /\ Canon(Call(<<One>>, <<>>)) \in DOMAIN fRes
    /\ fRes[Canon(Call(<<One>>, <<>>))] = Returns("r0")

----------------------------------------------------------------------------
(* Claims about patterns.Singleton: unhashable arguments, several types *)

C23_UnhashableStep ==
    (Requested /\ HasUnhashable(sLast'.req))
        => LET k == singleton_key(sLast'.req)
           IN  /\ sLast'.path \in {"hit", "miss"}
               /\ sLast'.path = "hit" <=> k \in DOMAIN instances
               /\ sLast'.path = "hit"
                     => /\ sLast'.ninv = 0 /\ sLast'.raised = "none"
                        /\ sLast'.ret = instances[k]
                        /\ objects[sLast'.ret].args = sLast'.req.args
               /\ (sLast'.path = "miss" /\ sLast'.raised = "none")
                     => /\ k \in DOMAIN instances'
                        /\ instances'[k] = sLast'.ret
               /\ sLast'.raised \in {"none", "ValueError"}
               /\ sLast'.raised = "ValueError" => sLast'.ninv = 1

----------------------------------------------------------------------------
(* utils.unique_list and utils.merged_list *)

\* the sequences of at most n elements of S
SeqsUpTo(S, n) == UNION {[1..k -> S] : k \in 0..n}

\* item in seen: membership in a set is by hash and ==
InSeen_same_type(item, seen) == item \in seen
InSeen(item, seen) == \E w \in seen : PyEq(item, w)

\* [item for item in seq if item not in seen and not seen.add(item)]
RECURSIVE unique_from(_, _)
unique_from(seq, seen) ==
    IF Len(seq) = 0 THEN <<>>
    ELSE IF InSeen(Head(seq), seen) THEN unique_from(Tail(seq), seen)
    ELSE <<Head(seq)>> \o unique_from(Tail(seq), seen \cup {Head(seq)})

\* unique_list(seq): seen = set(); an unhashable item makes the membership
\* test raise TypeError
unique_list(seq) ==
    IF \E i \in 1..Len(seq) : ~Hashable(seq[i]) THEN Raises("TypeError")
    ELSE Returns(unique_from(seq, {}))

UniqueValues == {One, Two, OneFloat, PyStr("1"), OneTwoList}
UniqueInputs == SeqsUpTo(UniqueValues, MaxLen)

UniqueInit ==
    /\ MemoInit /\ SingletonInit /\ BorgInit /\ WrapInit /\ KeyIdle
    /\ lIn \in UniqueInputs
    /\ lOut = Unset

UniqueList ==
    /\ lOut = Unset
    /\ lOut' = unique_list(lIn)
    /\ UNCHANGED <<lIn, memoVars, singletonVars, borgVars, wrapVars, keyVars>>

UniqueNext == UniqueList

SpecUnique == UniqueInit /\ [][UniqueNext]_vars

\* the positions of the input that hold the first occurrence of their value,
\* and the k-th of them
FirstOccurrences(seq) ==
    {i \in 1..Len(seq) : \A j \in 1..(i - 1) : ~PyEq(seq[j], seq[i])}
KthFirst(seq, k) ==
    CHOOSE i \in FirstOccurrences(seq) :
        Cardinality({j \in FirstOccurrences(seq) : j <= i}) = k

\* C24: for a sequence of hashable elements unique_list returns a list in
\* which no value is repeated, which holds every distinct value of the input
\* exactly once, in the order of the first occurrences: its k-th element is
\* the input element at the k-th first occurrence.
C24_UniqueInFirstOccurrenceOrder ==
    (lOut # Unset /\ \A i \in 1..Len(lIn) : Hashable(lIn[i]))
        => /\ lOut.kind = "ok"
           /\ \A i, j \in 1..Len(lOut.val) :
                 PyEq(lOut.val[i], lOut.val[j]) => i = j
           /\ \A i \in 1..Len(lIn) :
                 Cardinality({k \in 1..Len(lOut.val) : PyEq(lOut.val[k], lIn[i])}) = 1
           /\ Len(lOut.val) = Cardinality(FirstOccurrences(lIn))
           /\ \A k \in 1..Len(lOut.val) : lOut.val[k] = lIn[KthFirst(lIn, k)]

\* C24 witness: unique_list([2, 1, 2]) returned [2, 1].
C24_Witness ==
    /\ lIn = <<Two, One, Two>>
    /\ lOut = Returns(<<Two, One>>)

\* iter(v): a list gives its items, anything else here is not iterable
\* (TypeError)
Iterable(v) == Tag(v) = "list"
ItemsOf(v) == [i \in 1..Len(Payload(v)) |-> PyInt(Payload(v)[i])]

\* the local variable item before the first iteration of the inner loop
Unbound == <<"unbound", <<>>>>

\* merged_list(sequence):
\*   for seq in sequence:
\*       try:    for item in seq: merged.append(item)
\*       except TypeError: merged.append(item)
\* with the list built so far and the value the local item holds
RECURSIVE merged_from(_, _, _)
merged_from(sequence, merged, item) ==
    IF Len(sequence) = 0 THEN Returns(merged)
    ELSE LET seq == Head(sequence)
         IN  IF Iterable(seq)
             THEN merged_from(Tail(sequence), merged \o ItemsOf(seq),
                              IF Len(ItemsOf(seq)) = 0 THEN item
                              ELSE ItemsOf(seq)[Len(ItemsOf(seq))])
             ELSE IF item = Unbound THEN Raises("UnboundLocalError")
             ELSE merged_from(Tail(sequence), Append(merged, item), item)

merged_list(sequence) == merged_from(sequence, <<>>, Unbound)

MergedValues == {One, Two, PyList(<<>>), PyList(<<"2">>), OneTwoList}
MergedInputs == SeqsUpTo(MergedValues, MaxLen)

MergedInit ==
    /\ MemoInit /\ SingletonInit /\ BorgInit /\ WrapInit /\ KeyIdle
    /\ lIn \in MergedInputs
    /\ lOut = Unset

MergedList ==
    /\ lOut = Unset
    /\ lOut' = merged_list(lIn)
    /\ UNCHANGED <<lIn, memoVars, singletonVars, borgVars, wrapVars, keyVars>>

MergedNext == MergedList

SpecMerged == MergedInit /\ [][MergedNext]_vars

\* the input flattened one level: the items of each iterable element, each
\* other element itself, in input order
RECURSIVE Flattened(_)
Flattened(sequence) ==
    IF Len(sequence) = 0 THEN <<>>
    ELSE (IF Iterable(Head(sequence)) THEN ItemsOf(Head(sequence))
          ELSE <<Head(sequence)>>) \o Flattened(Tail(sequence))

\* C25 as stated: merged_list never fails and returns its input flattened
\* one level, a non-iterable element standing at its position.
C25_FlattensOneLevel ==
    lOut # Unset => lOut = Returns(Flattened(lIn))

----------------------------------------------------------------------------
(* Claims about decorators.memoized: a callable that fails *)

\* C26: a call whose key is not in the cache invokes the callable once; when
\* the callable fails, with a TypeError as with anything else, the call raises
\* that failure without invoking it again and leaves the cache as it was, so
\* the key is still absent and the next call with it invokes the callable
\* again; an entry exists only for a key on which the callable has returned.
C26_FailedMissStep ==
    (MemoCalled /\ MemoKeyed(memoLast'.call)
                /\ memo_key(memoLast'.call) \notin DOMAIN cache)
        => /\ memoLast'.path = "miss" /\ memoLast'.ninv = 1
           /\ memoInv' = Bump(memoInv, memo_key(memoLast'.call))
           /\ memoLast'.raised # "none"
                 => /\ cache' = cache
                    /\ memoLast'.raised \in Errors
                    /\ memoLast'.ret = "none"

C26_FailureLeavesNoEntry ==
    /\ [](\A k \in DOMAIN cache : Count(memoDone, k) >= 1)
    /\ [][C26_FailedMissStep]_vars

\* C26 witness: f(1) raised TypeError twice, each time after one invocation
\* of the callable, and its key is still not in the cache.
C26_Witness ==
    /\ memoLast.path = "miss" /\ memoLast.raised = "TypeError"
    /\ memoLast.call = Call(<<One>>, <<>>)
    /\ memoLast.ninv = 1
    /\ Count(memoInv, memo_key(memoLast.call)) = 2
    /\ memo_key(memoLast.call) \notin DOMAIN cache

----------------------------------------------------------------------------
(* decorators/method.py: memoized keyed by the argument tuple *)

\* self.cache[args]: a dict finds a tuple key by hash and ==, so an int and
\* a float of one value are one key
args_key(args) ==
    [i \in 1..Len(args) |->
        IF Tag(args[i]) \in {"int", "float"} THEN <<"number", Payload(args[i])>>
        ELSE args[i]]

ArgsCalls == {Call(a, <<>>) : a \in ArgTuples \cup {<<OneFloat>>, <<DictAB>>}}

\* memoized.__call__(*args) of decorators/method.py:
\*   try: return self.cache[args]
\*   except KeyError: value = self.func(*args); self.cache[args] = value
\*   except TypeError: return self.func(*args)
\* hashing a tuple that holds a list or a dict raises the TypeError
memoized_args_call_text_key(call, out) ==
    /\ memoCalls < MaxCalls
    /\ memoCalls' = memoCalls + 1
    /\ IF memo_key(call) \in DOMAIN cache
       THEN memoized_hit(call, memo_key(call))
       ELSE memoized_miss(call, memo_key(call), out)

memoized_args_call(call, out) ==
    /\ memoCalls < MaxCalls
    /\ memoCalls' = memoCalls + 1
    /\ IF HasUnhashable(call)
       THEN memoized_uncached(call, out)
       ELSE IF args_key(call.args) \in DOMAIN cache
            THEN memoized_hit(call, args_key(call.args))
            ELSE memoized_miss(call, args_key(call.args), out)

MemoArgsNext ==
    /\ \E call \in ArgsCalls, out \in Outcomes : memoized_args_call(call, out)
    /\ UNCHANGED <<memoStack, fRes>>
    /\ UNCHANGED <<singletonVars, borgVars, wrapVars, keyVars, listVars>>

SpecMemoArgs == Init /\ [][MemoArgsNext]_vars

\* C27: decorators/method.py: a call with an unhashable argument invokes the
\* callable once, returns or raises what it does and leaves the cache as it
\* was, however often the call was made before; no entry is ever stored for
\* such a call; a call with hashable arguments whose key is in the cache
\* returns the stored result without invoking the callable, and one whose
\* callable returns stores the result under its key, while one whose
\* callable raises passes the exception on and stores nothing.
C27_ArgsStep ==
    MemoCalled
        => LET call == memoLast'.call
               k == args_key(call.args)
           IN  /\ HasUnhashable(call)
                     => /\ memoLast'.path = "uncached" /\ memoLast'.ninv = 1
                        /\ cache' = cache /\ memoInv' = memoInv
               /\ (~HasUnhashable(call) /\ k \in DOMAIN cache)
                     => /\ memoLast'.path = "hit" /\ memoLast'.ninv = 0
                        /\ memoLast'.ret = cache[k] /\ cache' = cache
               /\ (~HasUnhashable(call) /\ k \notin DOMAIN cache)
                     => /\ memoLast'.path = "miss" /\ memoLast'.ninv = 1
                        /\ memoLast'.raised = "none"
                              => k \in DOMAIN cache' /\ cache'[k] = memoLast'.ret
                        /\ memoLast'.raised # "none"
                              => cache' = cache /\ memoLast'.raised \in Errors

C27_UnhashableUncachedHashableCached ==
    /\ [](\A k \in DOMAIN memoStored : ~HasUnhashable(memoStored[k]))
    /\ [][C27_ArgsStep]_vars

\* C27 witness: three calls were made, none of them touched the cache or
\* went through a key, and the last one is f([1, 2]) returning r1: all three
\* had an unhashable argument, and since only f([1, 2]) and f({'a': 0, 'b': 0}) have
\* one, a call was repeated and invoked the callable again.
C27_Witness ==
    /\ memoCalls = 3
    /\ memoLast.path = "uncached" /\ memoLast.ret = "r1" /\ memoLast.ninv = 1
    /\ memoLast.call = Call(<<OneTwoList>>, <<>>)
    /\ cache = EmptyMap /\ memoInv = EmptyMap
    /\ Cardinality({c \in ArgsCalls : HasUnhashable(c)}) = 2

\* C27 witness, cached half: f(1.0) was served from the entry f(1) stored
C27_HitWitness ==
    /\ memoLast.path = "hit" /\ memoLast.call = Call(<<OneFloat>>, <<>>)
    /\ memoStored[args_key(<<OneFloat>>)] = Call(<<One>>, <<>>)

====
